---- MODULE Spec2Model ----
(***************************************************************************)
(* A model of scorched/connection.py: SolrConnection (request with its     *)
(* single retry, the update URL builder, update/commit/optimize/rollback,  *)
(* select and mlt with their GET/POST choice) and SolrInterface (schema    *)
(* fetch, date fields, document normalisation, chunked add, deletes).      *)
(*                                                                         *)
(* Python strings are sequences of one-character strings, so that lengths, *)
(* URL encoding, decimal rendering and sorting are computed, not assumed.  *)
(* The module is Python 2 code (urlparse, urllib.urlencode, unicode), and  *)
(* its comparisons follow CPython 2.                                       *)
(***************************************************************************)
EXTENDS Integers, Sequences, FiniteSets, TLC

(***************************************************************************)
(* Bounds of the model.                                                    *)
(***************************************************************************)
\* retry_timeout is -1, 0 or MaxRetryTimeout
MaxRetryTimeout == 1
\* an update call is given at most MaxOptions keyword options
MaxOptions == 2
\* integer option values are -1, 0 and MaxOptionInt
MaxOptionInt == 11
\* add is given at most MaxDocs documents, and chunk sizes 0 .. MaxDocs
MaxDocs == 3
\* a parameter list handed to select or mlt holds at most MaxParams pairs
MaxParams == 2
\* one parameter list object is handed to select at most MaxWt times
MaxWt == 2
\* inline mlt content is at most MaxContent characters long
MaxContent == 1
\* configured GET thresholds are MinThreshold .. MinThreshold + ThresholdSpan
MinThreshold == 27
ThresholdSpan == 2

(***************************************************************************)
(* Program constants.                                                      *)
(***************************************************************************)
MAX_LENGTH_GET_URL == 2048

(***************************************************************************)
(* Python strings.                                                         *)
(***************************************************************************)
\* the printable ASCII characters, in code order from 32 (the grave accent,
\* code 96, cannot be written in a string here and is spelled out)
Ascii ==
  <<" ", "!", "\"", "#", "$", "%", "&", "'", "(", ")", "*", "+", ",", "-",
    ".", "/", "0", "1", "2", "3", "4", "5", "6", "7", "8", "9", ":", ";",
    "<", "=", ">", "?", "@", "A", "B", "C", "D", "E", "F", "G", "H", "I",
    "J", "K", "L", "M", "N", "O", "P", "Q", "R", "S", "T", "U", "V", "W",
    "X", "Y", "Z", "[", "\\", "]", "^", "_", "grave", "a", "b", "c", "d", "e",
    "f", "g", "h", "i", "j", "k", "l", "m", "n", "o", "p", "q", "r", "s",
    "t", "u", "v", "w", "x", "y", "z", "{", "|", "}", "~">>

\* ord(c): the code of the character c
OrdTable ==
  [c \in {Ascii[i] : i \in 1..Len(Ascii)} |->
     31 + (CHOOSE i \in 1..Len(Ascii) : Ascii[i] = c)]

ord(c) == OrdTable[c]

HexDigits ==
  <<"0", "1", "2", "3", "4", "5", "6", "7", "8", "9", "A", "B", "C", "D", "E", "F">>

DecDigits == <<"0", "1", "2", "3", "4", "5", "6", "7", "8", "9">>

\* str(n) for an int n: decimal digits, with a leading '-' when negative
RECURSIVE str_nat(_)
str_nat(n) ==
  IF n < 10 THEN <<DecDigits[n + 1]>>
  ELSE str_nat(n \div 10) \o <<DecDigits[(n % 10) + 1]>>

str_int(n) == IF n < 0 THEN <<"-">> \o str_nat(0 - n) ELSE str_nat(n)

\* Python's ordering of two strings: by the first differing character's
\* code; a proper prefix is smaller
RECURSIVE str_less(_, _)
str_less(a, b) ==
  IF b = <<>> THEN FALSE
  ELSE IF a = <<>> THEN TRUE
  ELSE IF Head(a) = Head(b) THEN str_less(Tail(a), Tail(b))
  ELSE ord(Head(a)) < ord(Head(b))

\* s.rstrip("/")
RECURSIVE rstrip_slash(_)
rstrip_slash(s) ==
  IF s # <<>> /\ s[Len(s)] = "/" THEN rstrip_slash(SubSeq(s, 1, Len(s) - 1))
  ELSE s

\* s.endswith(suffix)
endswith(s, suffix) ==
  /\ Len(suffix) <= Len(s)
  /\ SubSeq(s, Len(s) - Len(suffix) + 1, Len(s)) = suffix

\* s.replace('*', '')
RECURSIVE remove_star(_)
remove_star(s) ==
  IF s = <<>> THEN <<>>
  ELSE (IF Head(s) = "*" THEN <<>> ELSE <<Head(s)>>) \o remove_star(Tail(s))

\* the characters urllib.quote never escapes
AlwaysSafe(c) ==
  \/ ord(c) >= ord("a") /\ ord(c) <= ord("z")
  \/ ord(c) >= ord("A") /\ ord(c) <= ord("Z")
  \/ ord(c) >= ord("0") /\ ord(c) <= ord("9")
  \/ c \in {"_", ".", "-"}

\* urllib.quote_plus: safe characters stay, a space becomes '+', every
\* other character becomes %XX
quote_char(c) ==
  IF AlwaysSafe(c) THEN <<c>>
  ELSE IF c = " " THEN <<"+">>
  ELSE <<"%", HexDigits[(ord(c) \div 16) + 1], HexDigits[(ord(c) % 16) + 1]>>

RECURSIVE quote_plus(_)
quote_plus(s) ==
  IF s = <<>> THEN <<>> ELSE quote_char(Head(s)) \o quote_plus(Tail(s))

\* urllib.urlencode of a sequence of (key, value) pairs of strings
RECURSIVE urlencode(_)
urlencode(pairs) ==
  IF pairs = <<>> THEN <<>>
  ELSE quote_plus(pairs[1][1]) \o <<"=">> \o quote_plus(pairs[1][2])
       \o (IF Len(pairs) > 1 THEN <<"&">> ELSE <<>>)
       \o urlencode(Tail(pairs))

\* sorted(items) for (key, value) pairs with distinct keys
RECURSIVE sorted_items(_)
sorted_items(pairs) ==
  IF pairs = <<>> THEN <<>>
  ELSE LET m == CHOOSE i \in 1..Len(pairs) :
                  \A j \in 1..Len(pairs) : j = i \/ str_less(pairs[i][1], pairs[j][1])
           rest == [k \in 1..(Len(pairs) - 1) |->
                      IF k < m THEN pairs[k] ELSE pairs[k + 1]]
       IN  <<pairs[m]>> \o sorted_items(rest)

\* urlparse.urljoin(base, rel) for a relative path rel: the last segment
\* of base is replaced by rel
RECURSIVE strip_last_segment(_)
strip_last_segment(s) ==
  IF s = <<>> \/ s[Len(s)] = "/" THEN s
  ELSE strip_last_segment(SubSeq(s, 1, Len(s) - 1))

urljoin(base, rel) == strip_last_segment(base) \o rel

(***************************************************************************)
(* String literals of the source.                                          *)
(***************************************************************************)
S_update_json == <<"u", "p", "d", "a", "t", "e", "/", "j", "s", "o", "n">>
S_select == <<"s", "e", "l", "e", "c", "t", "/">>
S_mlt == <<"m", "l", "t", "/">>
remote_schema_file ==
  <<"s", "c", "h", "e", "m", "a", "?", "w", "t", "=", "j", "s", "o", "n">>
S_true == <<"t", "r", "u", "e">>
S_false == <<"f", "a", "l", "s", "e">>
K_commit == <<"c", "o", "m", "m", "i", "t">>
K_commitWithin == <<"c", "o", "m", "m", "i", "t", "W", "i", "t", "h", "i", "n">>
K_softCommit == <<"s", "o", "f", "t", "C", "o", "m", "m", "i", "t">>
K_optimize == <<"o", "p", "t", "i", "m", "i", "z", "e">>
K_waitSearcher == <<"w", "a", "i", "t", "S", "e", "a", "r", "c", "h", "e", "r">>
K_expungeDeletes ==
  <<"e", "x", "p", "u", "n", "g", "e", "D", "e", "l", "e", "t", "e", "s">>
K_maxSegments == <<"m", "a", "x", "S", "e", "g", "m", "e", "n", "t", "s">>
S_wt == <<"w", "t">>
S_json == <<"j", "s", "o", "n">>
S_stream_body == <<"&", "s", "t", "r", "e", "a", "m", ".", "b", "o", "d", "y", "=">>
S_commit_doc ==
  <<"{", "\"", "c", "o", "m", "m", "i", "t", "\"", ":", " ", "{", "}", "}">>
S_optimize_doc ==
  <<"{", "\"", "o", "p", "t", "i", "m", "i", "z", "e", "\"", ":", " ", "{", "}", "}">>
S_rollback_doc ==
  <<"{", "\"", "r", "o", "l", "l", "b", "a", "c", "k", "\"", ":", " ", "{", "}", "}">>

CT_json == "application/json; charset=utf-8"
CT_form == "application/x-www-form-urlencoded"
CT_text == "text/plain; charset=utf-8"
NoHeaders == ""

(***************************************************************************)
(* Python values handed in as keyword options.                             *)
(***************************************************************************)
None == [t |-> "None", v |-> 0]
BoolV(b) == [t |-> "bool", v |-> IF b THEN 1 ELSE 0]
IntV(i) == [t |-> "int", v |-> i]
\* a string that is not a number, such as "abc"
JunkV == [t |-> "str", v |-> 1]

\* truth value of a Python value
truthy(x) == x.t # "None" /\ x.v # 0

\* int(x) raises TypeError or ValueError
int_raises(x) == x.t \notin {"int", "bool"}
int_of(x) == x.v

\* CPython 2 orders a str against an int by type: the int is always the
\* smaller, so cmp(s, n) = 1 whatever s and n are
py2_cmp_str_int(s, n) == 1

(***************************************************************************)
(* Requests, responses and outcomes of operations.                         *)
(***************************************************************************)
\* the data argument of http_connection.request: absent ("none"), a string
\* ("str", its characters in text), or the output of json.dumps: a list of
\* documents ("json_docs"), {"delete": {"query": text}} ("json_delete_query")
\* or {"delete": items} ("json_delete_ids")
NoData == [kind |-> "none", text |-> <<>>, items |-> <<>>]
StrData(s) == [kind |-> "str", text |-> s, items |-> <<>>]

\* what the server, or the network, does to one transport attempt: a
\* response, or a failure to connect
Response(code, content) == [exc |-> "none", status_code |-> code, content |-> content]
ConnectionError == [exc |-> "ConnectionError", status_code |-> 0, content |-> ""]
NoResponse == [exc |-> "none", status_code |-> 0, content |-> ""]
Outcomes == {Response(200, "results"), Response(500, "error"), ConnectionError}

\* the outcome of an operation: the exception raised ("none" when it
\* returns), the response its exception carries, the value it returns (""
\* for None), the calls of request it made and the calls of update it made
Outcome(raised, response, returned, requests, updates) ==
  [raised |-> raised, response |-> response, returned |-> returned,
   requests |-> requests, updates |-> updates]

(***************************************************************************)
(* SolrConnection.                                                         *)
(***************************************************************************)
SolrConnection(url, mode, retry_timeout, max_length_get_url) ==
  LET base == rstrip_slash(url) \o <<"/">>
  IN  [readable |-> mode # "w",
       writeable |-> mode # "r",
       url |-> base,
       update_url |-> base \o S_update_json,
       select_url |-> base \o S_select,
       mlt_url |-> base \o S_mlt,
       retry_timeout |-> retry_timeout,
       max_length_get_url |-> max_length_get_url]

\* one call of http_connection.request and what became of it
Try(method, url, data, headers, got) ==
  [method |-> method, url |-> url, data |-> data, headers |-> headers, got |-> got]

\* request, as it would be if it retried whatever the retry delay is
request_always_retries(self, method, url, data, headers, net) ==
  LET first == Try(method, url, data, headers, net[1])
      second == Try(method, url, data, headers, net[2])
      delay == IF self.retry_timeout < 0 THEN 0 ELSE self.retry_timeout
  IN  IF net[1].exc = "none"
      THEN [raised |-> "none", response |-> net[1], tries |-> <<first>>,
            slept |-> <<>>]
      ELSE IF net[2].exc = "none"
      THEN [raised |-> "none", response |-> net[2], tries |-> <<first, second>>,
            slept |-> <<delay>>]
      ELSE [raised |-> "ConnectionError", response |-> NoResponse,
            tries |-> <<first, second>>, slept |-> <<delay>>]

\* request, as it would be if it also tried again after a response whose
\* status is not 200
request_retries_responses(self, method, url, data, headers, net) ==
  LET first == Try(method, url, data, headers, net[1])
      second == Try(method, url, data, headers, net[2])
      failed == net[1].exc # "none" \/ net[1].status_code # 200
  IN  IF ~failed
      THEN [raised |-> "none", response |-> net[1], tries |-> <<first>>,
            slept |-> <<>>]
      ELSE IF self.retry_timeout < 0
      THEN [raised |-> net[1].exc,
            response |-> IF net[1].exc = "none" THEN net[1] ELSE NoResponse,
            tries |-> <<first>>, slept |-> <<>>]
      ELSE [raised |-> net[2].exc,
            response |-> IF net[2].exc = "none" THEN net[2] ELSE NoResponse,
            tries |-> <<first, second>>, slept |-> <<self.retry_timeout>>]

\* request: net[1] is what happens to the first transport attempt and
\* net[2] what happens to the second, if one is made. The result names the
\* exception raised or the response returned, the transport attempts in
\* order and the delays slept.
request(self, method, url, data, headers, net) ==
  LET first == Try(method, url, data, headers, net[1])
      second == Try(method, url, data, headers, net[2])
  IN  IF net[1].exc = "none"
      THEN [raised |-> "none", response |-> net[1], tries |-> <<first>>,
            slept |-> <<>>]
      ELSE IF self.retry_timeout < 0
      THEN [raised |-> "ConnectionError", response |-> NoResponse,
            tries |-> <<first>>, slept |-> <<>>]
      ELSE IF net[2].exc = "none"
      THEN [raised |-> "none", response |-> net[2], tries |-> <<first, second>>,
            slept |-> <<self.retry_timeout>>]
      ELSE [raised |-> "ConnectionError", response |-> NoResponse,
            tries |-> <<first, second>>, slept |-> <<self.retry_timeout>>]

\* the keyword options of url_for_update, all defaulting to None
NoOptions ==
  [commit |-> None, commitWithin |-> None, softCommit |-> None,
   optimize |-> None, waitSearcher |-> None, expungeDeletes |-> None,
   maxSegments |-> None]

\* bool_param, as it would be if it wrote the boolean as Python prints it
bool_param_python_repr(key, x) ==
  IF x.t = "None" THEN <<>>
  ELSE <<(<<key, IF truthy(x) THEN <<"T", "r", "u", "e">>
                 ELSE <<"F", "a", "l", "s", "e">>>>)>>

\* extra_params[key] = "true" if x else "false", when x is not None
bool_param(key, x) ==
  IF x.t = "None" THEN <<>>
  ELSE <<(<<key, IF truthy(x) THEN S_true ELSE S_false>>)>>

\* extra_params[key] = str(int(x)), when x is not None
int_param(key, x) ==
  IF x.t = "None" \/ int_raises(x) THEN <<>>
  ELSE <<(<<key, str_int(int_of(x))>>)>>

\* url_for_update, as it would be if it did not sort the parameters
url_for_update_unsorted(self, kw) ==
  LET extra_params ==
        bool_param(K_commit, kw.commit)
        \o int_param(K_commitWithin, kw.commitWithin)
        \o bool_param(K_softCommit, kw.softCommit)
        \o bool_param(K_optimize, kw.optimize)
        \o bool_param(K_waitSearcher, kw.waitSearcher)
        \o bool_param(K_expungeDeletes, kw.expungeDeletes)
        \o int_param(K_maxSegments, kw.maxSegments)
      has(key) == \E i \in 1..Len(extra_params) : extra_params[i][1] = key
      error ==
        \/ kw.commitWithin.t # "None" /\ int_raises(kw.commitWithin)
        \/ kw.maxSegments.t # "None" /\ int_raises(kw.maxSegments)
        \/ has(K_expungeDeletes) /\ ~has(K_commit)
        \/ has(K_maxSegments) /\ ~has(K_optimize)
  IN  IF error THEN [raised |-> "ValueError", url |-> <<>>]
      ELSE IF extra_params # <<>>
      THEN [raised |-> "none",
            url |-> self.update_url \o <<"?">> \o urlencode(extra_params)]
      ELSE [raised |-> "none", url |-> self.update_url]

\* url_for_update: the URL, or the ValueError raised
url_for_update(self, kw) ==
  LET extra_params ==
        bool_param(K_commit, kw.commit)
        \o int_param(K_commitWithin, kw.commitWithin)
        \o bool_param(K_softCommit, kw.softCommit)
        \o bool_param(K_optimize, kw.optimize)
        \o bool_param(K_waitSearcher, kw.waitSearcher)
        \o bool_param(K_expungeDeletes, kw.expungeDeletes)
        \o int_param(K_maxSegments, kw.maxSegments)
      has(key) == \E i \in 1..Len(extra_params) : extra_params[i][1] = key
      value(key) == extra_params[CHOOSE i \in 1..Len(extra_params) :
                                   extra_params[i][1] = key][2]
      error ==
        \/ /\ kw.commitWithin.t # "None"
           /\ \/ int_raises(kw.commitWithin)
              \/ py2_cmp_str_int(value(K_commitWithin), 0) < 0
        \/ /\ kw.maxSegments.t # "None"
           /\ \/ int_raises(kw.maxSegments)
              \/ py2_cmp_str_int(value(K_maxSegments), 0) <= 0
        \/ has(K_expungeDeletes) /\ ~has(K_commit)
        \/ has(K_maxSegments) /\ ~has(K_optimize)
  IN  IF error THEN [raised |-> "ValueError", url |-> <<>>]
      ELSE IF extra_params # <<>>
      THEN [raised |-> "none",
            url |-> self.update_url \o <<"?">>
                      \o urlencode(sorted_items(extra_params))]
      ELSE [raised |-> "none", url |-> self.update_url]

\* update: POSTs update_doc to the update URL. The outcome logs the call
\* itself, with its arguments and the exception it raised.
update(self, update_doc, kw, net) ==
  LET out(raised, response, requests) ==
        Outcome(raised, response, "", requests,
                <<[update_doc |-> update_doc, kw |-> kw, raised |-> raised]>>)
  IN  IF ~self.writeable
      THEN out("TypeError", NoResponse, <<>>)
      ELSE LET body == update_doc
               headers == IF body.kind = "str" /\ body.text = <<>>
                          THEN NoHeaders ELSE CT_json
               u == url_for_update(self, kw)
           IN  IF u.raised # "none"
               THEN out(u.raised, NoResponse, <<>>)
               ELSE LET r == request(self, "POST", u.url, body, headers, net)
                    IN  IF r.raised # "none"
                        THEN out(r.raised, NoResponse, <<r>>)
                        ELSE IF r.response.status_code # 200
                        THEN out("SolrError", r.response, <<r>>)
                        ELSE out("none", NoResponse, <<r>>)

\* commit, as it would be if it did not pass commit=True on
commit_without_flag(self, waitSearcher, expungeDeletes, softCommit, net) ==
  update(self, StrData(S_commit_doc),
         [NoOptions EXCEPT !.waitSearcher = waitSearcher,
                           !.expungeDeletes = expungeDeletes,
                           !.softCommit = softCommit], net)

commit(self, waitSearcher, expungeDeletes, softCommit, net) ==
  update(self, StrData(S_commit_doc),
         [NoOptions EXCEPT !.commit = BoolV(TRUE),
                           !.waitSearcher = waitSearcher,
                           !.expungeDeletes = expungeDeletes,
                           !.softCommit = softCommit], net)

optimize(self, waitSearcher, maxSegments, net) ==
  update(self, StrData(S_optimize_doc),
         [NoOptions EXCEPT !.optimize = BoolV(TRUE),
                           !.waitSearcher = waitSearcher,
                           !.maxSegments = maxSegments], net)

rollback(self, net) == update(self, StrData(S_rollback_doc), NoOptions, net)

\* select, as it would be if it POSTed from the threshold length on
select_posts_at_threshold(self, params, net) ==
  IF ~self.readable
  THEN [out |-> Outcome("TypeError", NoResponse, "", <<>>, <<>>), params |-> params]
  ELSE LET appended == Append(params, <<S_wt, S_json>>)
           qs == urlencode(appended)
           get_url == self.select_url \o <<"?">> \o qs
           r == IF Len(get_url) >= self.max_length_get_url
                THEN request(self, "POST", self.select_url, StrData(qs), CT_form, net)
                ELSE request(self, "GET", get_url, NoData, NoHeaders, net)
       IN  [out |-> IF r.raised # "none"
                    THEN Outcome(r.raised, NoResponse, "", <<r>>, <<>>)
                    ELSE IF r.response.status_code # 200
                    THEN Outcome("SolrError", r.response, "", <<r>>, <<>>)
                    ELSE Outcome("none", NoResponse, r.response.content, <<r>>, <<>>),
            params |-> appended]

\* select, as it would be if it appended wt=json to a copy of the list
select_copies_params(self, params, net) ==
  IF ~self.readable
  THEN [out |-> Outcome("TypeError", NoResponse, "", <<>>, <<>>), params |-> params]
  ELSE LET appended == Append(params, <<S_wt, S_json>>)
           qs == urlencode(appended)
           get_url == self.select_url \o <<"?">> \o qs
           r == IF Len(get_url) > self.max_length_get_url
                THEN request(self, "POST", self.select_url, StrData(qs), CT_form, net)
                ELSE request(self, "GET", get_url, NoData, NoHeaders, net)
       IN  [out |-> IF r.raised # "none"
                    THEN Outcome(r.raised, NoResponse, "", <<r>>, <<>>)
                    ELSE IF r.response.status_code # 200
                    THEN Outcome("SolrError", r.response, "", <<r>>, <<>>)
                    ELSE Outcome("none", NoResponse, r.response.content, <<r>>, <<>>),
            params |-> params]

\* select: the outcome, and the caller's parameter list as the call leaves it
select(self, params, net) ==
  IF ~self.readable
  THEN [out |-> Outcome("TypeError", NoResponse, "", <<>>, <<>>), params |-> params]
  ELSE LET appended == Append(params, <<S_wt, S_json>>)
           qs == urlencode(appended)
           get_url == self.select_url \o <<"?">> \o qs
           r == IF Len(get_url) > self.max_length_get_url
                THEN request(self, "POST", self.select_url, StrData(qs), CT_form, net)
                ELSE request(self, "GET", get_url, NoData, NoHeaders, net)
       IN  [out |-> IF r.raised # "none"
                    THEN Outcome(r.raised, NoResponse, "", <<r>>, <<>>)
                    ELSE IF r.response.status_code # 200
                    THEN Outcome("SolrError", r.response, "", <<r>>, <<>>)
                    ELSE Outcome("none", NoResponse, r.response.content, <<r>>, <<>>),
            params |-> appended]

\* the content argument of mlt: None, or a string
NoContent == [none |-> TRUE, text |-> <<>>]
Content(s) == [none |-> FALSE, text |-> s]

\* mlt: a MoreLikeThis query, with or without inline content
mlt(self, params, content, net) ==
  IF ~self.readable
  THEN Outcome("TypeError", NoResponse, "", <<>>, <<>>)
  ELSE LET qs == urlencode(params)
           base_url == self.mlt_url \o <<"?">> \o qs
           get_url == base_url \o S_stream_body \o quote_plus(content.text)
           r == IF content.none
                THEN request(self, "GET", base_url, NoData, NoHeaders, net)
                ELSE IF Len(get_url) <= self.max_length_get_url
                THEN request(self, "GET", get_url, NoData, NoHeaders, net)
                ELSE request(self, "POST", base_url, StrData(content.text),
                             CT_text, net)
       IN  IF r.raised # "none"
           THEN Outcome(r.raised, NoResponse, "", <<r>>, <<>>)
           ELSE IF r.response.status_code # 200
           THEN Outcome("SolrError", r.response, "", <<r>>, <<>>)
           ELSE Outcome("none", NoResponse, r.response.content, <<r>>, <<>>)

(***************************************************************************)
(* SolrInterface.                                                          *)
(***************************************************************************)
\* field names used by the schemas and documents of the model
F_id == <<"i", "d">>
F_dt == <<"d", "t">>
F_a_dt == <<"a", "_", "d", "t">>
F_n == <<"n">>
F_star_dt == <<"*", "_", "d", "t">>
F_dt_x == <<"d", "t", "_", "x">>
F_dt_star == <<"d", "t", "_", "*">>
F_star_s == <<"*", "_", "s">>

\* schema documents the server may hold: one with a date field and a date
\* dynamic field whose pattern starts with the wildcard, one with no date
\* field at all, one with a date dynamic field whose pattern ends with the
\* wildcard
SchemaDates ==
  [fields |-> <<[name |-> F_id, type |-> "string"], [name |-> F_dt, type |-> "date"]>>,
   dynamicFields |-> <<[name |-> F_star_s, type |-> "string"],
                       [name |-> F_star_dt, type |-> "date"]>>]
SchemaPlain ==
  [fields |-> <<[name |-> F_id, type |-> "string"]>>,
   dynamicFields |-> <<[name |-> F_star_s, type |-> "string"]>>]
SchemaPrefix ==
  [fields |-> <<[name |-> F_id, type |-> "string"]>>,
   dynamicFields |-> <<[name |-> F_dt_star, type |-> "date"]>>]
Schemas == {SchemaDates, SchemaPlain, SchemaPrefix}

\* [x for x in xs if x['type'] == 'date']
RECURSIVE date_typed(_)
date_typed(xs) ==
  IF xs = <<>> THEN <<>>
  ELSE (IF Head(xs).type = "date" THEN <<Head(xs)>> ELSE <<>>) \o date_typed(Tail(xs))

\* _extract_datefields: the names of the date fields and date dynamic
\* fields, every '*' removed
_extract_datefields(schema) ==
  LET ret == date_typed(schema.fields) \o date_typed(schema.dynamicFields)
  IN  [i \in 1..Len(ret) |-> remove_star(ret[i].name)]

\* values of document fields: None, a text, or a date given as a native
\* date, as a date-like string or as a string in Solr's format
NoneValue == [t |-> "None", v |-> 0]
TextValue(k) == [t |-> "text", v |-> k]
DateValue(k) == [t |-> "date", v |-> k]
DateString(k) == [t |-> "datestr", v |-> k]
SolrDate(k) == [t |-> "solrdate", v |-> k]

\* unicode(scorched.dates.solr_date(value)): the date in Solr's format
solr_date(value) == SolrDate(value.v)

\* is_datefield, as it would be if it looked for the patterns at the
\* start of the name
is_datefield_prefix(datefields, name) ==
  \/ \E i \in 1..Len(datefields) : datefields[i] = name
  \/ \E i \in 1..Len(datefields) :
       /\ Len(datefields[i]) <= Len(name)
       /\ SubSeq(name, 1, Len(datefields[i])) = datefields[i]

\* whether _prepare_docs rewrites the field name as a date
is_datefield(datefields, name) ==
  \/ \E i \in 1..Len(datefields) : datefields[i] = name
  \/ \E i \in 1..Len(datefields) : endswith(name, datefields[i])

\* prepare_doc, as it would be if it left the fields that hold None in place
prepare_doc_keeps_nulls(datefields, doc) ==
  [name \in DOMAIN doc |->
     IF doc[name].t # "None" /\ is_datefield(datefields, name)
     THEN solr_date(doc[name]) ELSE doc[name]]

\* _prepare_docs on one document: a function from field names to values
prepare_doc(datefields, doc) ==
  [name \in {n \in DOMAIN doc : doc[n].t # "None"} |->
     IF is_datefield(datefields, name) THEN solr_date(doc[name]) ELSE doc[name]]

_prepare_docs(datefields, docs) ==
  [i \in 1..Len(docs) |-> prepare_doc(datefields, docs[i])]

\* docs_after_chunk, as it would be if _prepare_docs built new documents
\* and left the caller's as they were
docs_after_chunk_copied(docs, consumed, prepared) == docs

\* the caller's documents after _prepare_docs has gone through the chunk
\* that follows the first consumed of them: it pops and assigns fields of
\* the caller's own dicts, so these documents are now the prepared ones
docs_after_chunk(docs, consumed, prepared) ==
  [i \in 1..Len(docs) |->
     IF i > consumed /\ i <= consumed + Len(prepared)
     THEN prepared[i - consumed] ELSE docs[i]]

\* the docs argument of add: a mapping, which is one document, or a list
\* of documents
MappingArg(doc) == [kind |-> "mapping", doc |-> doc, items |-> <<>>]
ListArg(items) == [kind |-> "list", doc |-> <<>>, items |-> items]

\* hasattr(docs, "items") and hasattr(docs, "__iter__")
hasattr_items(docs) == docs.kind = "mapping"
hasattr_iter(docs) == docs.kind \in {"mapping", "list"}

\* docs_list, as it would be if a mapping were not wrapped and add went
\* through it field by field, each field taken for a document
docs_list_field_by_field(docs) ==
  IF hasattr_items(docs)
  THEN LET names == DOMAIN docs.doc
           order == CHOOSE f \in [1..Cardinality(names) -> names] :
                      \A i, j \in 1..Cardinality(names) : i # j => f[i] # f[j]
       IN  [i \in 1..Cardinality(names) |->
              [name \in {order[i]} |-> docs.doc[name]]]
  ELSE docs.items

\* add, before its loop: the list of documents it goes through; a mapping
\* (and anything that cannot be iterated) is wrapped in a list of one
docs_list(docs) ==
  IF hasattr_items(docs) \/ ~hasattr_iter(docs) THEN <<docs.doc>> ELSE docs.items

\* next_chunk, as it would be if a chunk size of 0 meant no limit
next_chunk_zero_takes_all(docs, consumed, n) ==
  SubSeq(docs, consumed + 1,
         IF n # 0 /\ consumed + n < Len(docs) THEN consumed + n ELSE Len(docs))

\* next_chunk, as it would be if it took one item too few
next_chunk_one_short(docs, consumed, n) ==
  SubSeq(docs, consumed + 1,
         IF consumed + n - 1 < Len(docs) THEN consumed + n - 1 ELSE Len(docs))

\* grouper: the next chunk, list(itertools.islice(i, 0, n)), of an iterator
\* that has yielded consumed items of docs
next_chunk(docs, consumed, n) ==
  SubSeq(docs, consumed + 1, IF consumed + n < Len(docs) THEN consumed + n ELSE Len(docs))

\* grouper: all the chunks of docs, in order
RECURSIVE grouper_from(_, _, _)
grouper_from(docs, consumed, n) ==
  LET g == next_chunk(docs, consumed, n)
  IN  IF g = <<>> THEN <<>> ELSE <<g>> \o grouper_from(docs, consumed + Len(g), n)

grouper(docs, n) == grouper_from(docs, 0, n)

\* json.dumps of a list of documents, of {"delete": {"query": q}} and of
\* {"delete": ids}
JsonDocs(docs) == [kind |-> "json_docs", text |-> <<>>, items |-> docs]
JsonDeleteQuery(q) == [kind |-> "json_delete_query", text |-> q, items |-> <<>>]
JsonDeleteIds(ids) == [kind |-> "json_delete_ids", text |-> <<>>, items |-> ids]

\* add_chunk, as it would be if it fetched the schema again before it
\* handed the chunk to update
add_chunk_refetches(self, datefields, g, kw, net) ==
  LET fetch == request(self, "GET", urljoin(self.url, remote_schema_file), NoData,
                       NoHeaders, net)
      r == update(self, JsonDocs(_prepare_docs(datefields, g)), kw, net)
  IN  [r EXCEPT !.requests = <<fetch>> \o r.requests]

\* one iteration of the loop of add over the chunk g: the chunk is
\* normalised, serialised and handed to update
add_chunk(self, datefields, g, kw, net) ==
  update(self, JsonDocs(_prepare_docs(datefields, g)), kw, net)

\* add_status, as it would be if add went on to the next chunk after an
\* exception and raised only at the end
add_status_goes_on(raised, left) ==
  IF left # <<>> THEN "running" ELSE raised

\* how the loop of add goes on after the update of a chunk: an exception
\* leaves add, the end of the chunks ends it, otherwise it goes on
add_status(raised, left) ==
  IF raised # "none" THEN raised
  ELSE IF left = <<>> THEN "none" ELSE "running"

delete_by_query(self, query, kw, net) == update(self, JsonDeleteQuery(query), kw, net)

delete_by_ids(self, ids, kw, net) == update(self, JsonDeleteIds(ids), kw, net)

\* init_schema: fetches the schema document the server holds
init_schema(self, schema, net) ==
  LET r == request(self, "GET", urljoin(self.url, remote_schema_file), NoData,
                   NoHeaders, net)
  IN  IF r.raised # "none"
      THEN [out |-> Outcome(r.raised, NoResponse, "", <<r>>, <<>>), schema |-> SchemaPlain]
      ELSE IF r.response.status_code # 200
      THEN [out |-> Outcome("EnvironmentError", r.response, "", <<r>>, <<>>),
            schema |-> SchemaPlain]
      ELSE [out |-> Outcome("none", NoResponse, "", <<r>>, <<>>), schema |-> schema]

(***************************************************************************)
(* Inputs of the model.                                                    *)
(***************************************************************************)
S_base == <<"h", "t", "t", "p", ":", "/", "/", "h">>
Urls == {S_base, S_base \o <<"/">>, S_base \o <<"/", "/">>}
Modes == {"r", "w", ""}
RetryTimeouts == {-1, 0, MaxRetryTimeout}
Thresholds == (MinThreshold..(MinThreshold + ThresholdSpan)) \cup {MAX_LENGTH_GET_URL}

\* what happens to the first and to the second transport attempt of a request
Nets == [1..2 -> Outcomes]

BoolChoices == {BoolV(TRUE), BoolV(FALSE)}
IntChoices == {IntV(-1), IntV(0), IntV(MaxOptionInt), JunkV}
AllOptions ==
  [commit : BoolChoices \cup {None}, commitWithin : IntChoices \cup {None},
   softCommit : BoolChoices \cup {None}, optimize : BoolChoices \cup {None},
   waitSearcher : BoolChoices \cup {None}, expungeDeletes : BoolChoices \cup {None},
   maxSegments : IntChoices \cup {None}]
supplied(kw) == {k \in DOMAIN kw : kw[k].t # "None"}
UpdateOptions == {kw \in AllOptions : Cardinality(supplied(kw)) <= MaxOptions}
\* the options handed to add and to the deletes: none, valid ones, and
\* ones url_for_update has something to say about
AddOptions ==
  {NoOptions,
   [NoOptions EXCEPT !.commit = BoolV(TRUE)],
   [NoOptions EXCEPT !.commit = BoolV(TRUE), !.expungeDeletes = BoolV(FALSE)],
   [NoOptions EXCEPT !.expungeDeletes = BoolV(TRUE)],
   [NoOptions EXCEPT !.commitWithin = IntV(MaxOptionInt)],
   [NoOptions EXCEPT !.commitWithin = IntV(-1)],
   [NoOptions EXCEPT !.commitWithin = JunkV]}

S_empty_list == <<"[", "]">>
UpdateDocs == {StrData(<<>>), StrData(S_empty_list)}

\* parameter lists: up to MaxParams pairs with key q
S_q == <<"q">>
ParamValues == {<<>>, <<"a">>, <<"&", "&">>}
ParamPairs == {<<S_q, v>> : v \in ParamValues}
ParamLists == UNION {[1..n -> ParamPairs] : n \in 0..MaxParams}

\* inline content: None, or up to MaxContent characters
Contents ==
  {NoContent} \cup {Content(s) : s \in UNION {[1..n -> {"a", "&"}] : n \in 0..MaxContent}}

\* documents: date fields hold dates in the representations solr_date takes
Doc(i) ==
  IF i % 3 = 1
  THEN [name \in {F_id, F_dt} |-> IF name = F_id THEN TextValue(i) ELSE DateValue(i)]
  ELSE IF i % 3 = 2
  THEN [name \in {F_id, F_a_dt, F_n} |->
          IF name = F_id THEN TextValue(i)
          ELSE IF name = F_a_dt THEN DateString(i) ELSE NoneValue]
  ELSE [name \in {F_id, F_dt_x} |->
          IF name = F_id THEN TextValue(i) ELSE DateString(i)]

\* the docs argument of add: one mapping, or a list of documents
DocsArgs ==
  {MappingArg(Doc(1))} \cup {ListArg([i \in 1..n |-> Doc(i)]) : n \in 0..MaxDocs}
ChunkSizes == 0..MaxDocs

Queries == {<<"*", ":", "*">>, <<"a">>}
IdLists == {<<>>, <<(<<"1">>)>>, <<(<<"1">>), (<<"2">>)>>}

(***************************************************************************)
(* State.                                                                  *)
(***************************************************************************)
VARIABLES
  conn,        \* the SolrConnection
  phase,       \* "new" before SolrInterface.__init__ fetches the schema,
               \* then "ready", or "failed" when the fetch failed
  schema,      \* SolrInterface.schema
  datefields,  \* SolrInterface._datefields
  call,        \* the operation last called and its arguments as passed;
               \* for select also how many times the caller has passed this
               \* list object (nth) and the list as it first passed it
  heap,        \* the caller's argument objects of that call: its parameter
               \* list and its documents, as the call has left them so far
  consumed,    \* add: how many documents the chunk iterator has yielded
  result       \* the outcome of that call; raised = "running" while add loops

vars == <<conn, phase, schema, datefields, call, heap, consumed, result>>

NoCall ==
  [op |-> "none", update_doc |-> NoData, kw |-> NoOptions, params |-> <<>>,
   content |-> NoContent, docs |-> <<>>, mapping |-> FALSE, doc |-> <<>>,
   chunk |-> 0, nth |-> 0, first_params |-> <<>>]
NoHeap == [params |-> <<>>, docs |-> <<>>]
\* the schema attribute before the schema is fetched
NoSchema == [fields |-> <<>>, dynamicFields |-> <<>>]
NoOutcome == Outcome("none", NoResponse, "", <<>>, <<>>)

\* the state after SolrConnection.__init__
Init ==
  /\ \E url \in Urls, mode \in Modes, retry_timeout \in RetryTimeouts,
        max_length_get_url \in Thresholds :
       conn = SolrConnection(url, mode, retry_timeout, max_length_get_url)
  /\ phase = "new"
  /\ schema = NoSchema
  /\ datefields = <<>>
  /\ call = NoCall
  /\ heap = NoHeap
  /\ consumed = 0
  /\ result = NoOutcome

\* the caller may call an operation: the interface is built and no call
\* is in progress or waiting to be looked at
Idle == phase = "ready" /\ call.op = "none"

\* SolrInterface.__init__: fetch the schema, keep its date fields
InterfaceInit ==
  /\ phase = "new"
  /\ \E served \in Schemas, net \in Nets :
       LET r == init_schema(conn, served, net)
       IN  /\ result' = r.out
           /\ phase' = IF r.out.raised = "none" THEN "ready" ELSE "failed"
           /\ schema' = IF r.out.raised = "none" THEN r.schema ELSE schema
           /\ datefields' = IF r.out.raised = "none"
                            THEN _extract_datefields(r.schema) ELSE datefields
  /\ call' = [NoCall EXCEPT !.op = "init"]
  /\ UNCHANGED <<conn, heap, consumed>>

\* the caller has looked at the outcome and dropped the argument objects
Return ==
  /\ phase = "ready"
  /\ call.op # "none"
  /\ result.raised # "running"
  /\ call' = NoCall
  /\ heap' = NoHeap
  /\ consumed' = 0
  /\ result' = NoOutcome
  /\ UNCHANGED <<conn, phase, schema, datefields>>

Update ==
  /\ Idle
  /\ \E update_doc \in UpdateDocs, kw \in UpdateOptions, net \in Nets :
       /\ call' = [NoCall EXCEPT !.op = "update", !.update_doc = update_doc, !.kw = kw]
       /\ result' = update(conn, update_doc, kw, net)
  /\ UNCHANGED <<conn, phase, schema, datefields, heap, consumed>>

Commit ==
  /\ Idle
  /\ \E waitSearcher \in BoolChoices \cup {None},
        expungeDeletes \in BoolChoices \cup {None},
        softCommit \in BoolChoices \cup {None}, net \in Nets :
       /\ call' = [NoCall EXCEPT !.op = "commit",
                                 !.kw = [NoOptions EXCEPT
                                           !.waitSearcher = waitSearcher,
                                           !.expungeDeletes = expungeDeletes,
                                           !.softCommit = softCommit]]
       /\ result' = commit(conn, waitSearcher, expungeDeletes, softCommit, net)
  /\ UNCHANGED <<conn, phase, schema, datefields, heap, consumed>>

Optimize ==
  /\ Idle
  /\ \E waitSearcher \in BoolChoices \cup {None},
        maxSegments \in IntChoices \cup {None}, net \in Nets :
       /\ call' = [NoCall EXCEPT !.op = "optimize",
                                 !.kw = [NoOptions EXCEPT
                                           !.waitSearcher = waitSearcher,
                                           !.maxSegments = maxSegments]]
       /\ result' = optimize(conn, waitSearcher, maxSegments, net)
  /\ UNCHANGED <<conn, phase, schema, datefields, heap, consumed>>

Rollback ==
  /\ Idle
  /\ \E net \in Nets :
       /\ call' = [NoCall EXCEPT !.op = "rollback"]
       /\ result' = rollback(conn, net)
  /\ UNCHANGED <<conn, phase, schema, datefields, heap, consumed>>

\* select with a parameter list the caller has just built
Select ==
  /\ Idle
  /\ \E params \in ParamLists, net \in Nets :
       LET r == select(conn, params, net)
       IN  /\ call' = [NoCall EXCEPT !.op = "select", !.params = params,
                                     !.nth = 1, !.first_params = params]
           /\ result' = r.out
           /\ heap' = [NoHeap EXCEPT !.params = r.params]
  /\ UNCHANGED <<conn, phase, schema, datefields, consumed>>

wt_pairs(params) == Cardinality({i \in 1..Len(params) : params[i] = <<S_wt, S_json>>})

\* select again with the list object of the select before
SelectAgain ==
  /\ phase = "ready"
  /\ call.op = "select"
  /\ call.nth < MaxWt
  /\ \E net \in Nets :
       LET r == select(conn, heap.params, net)
       IN  /\ call' = [call EXCEPT !.params = heap.params, !.nth = call.nth + 1]
           /\ result' = r.out
           /\ heap' = [NoHeap EXCEPT !.params = r.params]
  /\ UNCHANGED <<conn, phase, schema, datefields, consumed>>

Mlt ==
  /\ Idle
  /\ \E params \in ParamLists, content \in Contents, net \in Nets :
       /\ call' = [NoCall EXCEPT !.op = "mlt", !.params = params, !.content = content]
       /\ result' = mlt(conn, params, content, net)
       /\ heap' = [NoHeap EXCEPT !.params = params]
  /\ UNCHANGED <<conn, phase, schema, datefields, consumed>>

\* add, up to its loop: a single mapping is wrapped in a list, and the
\* chunk iterator is started; with no first chunk add returns at once
Add ==
  /\ Idle
  /\ \E docs \in DocsArgs, chunk \in ChunkSizes, kw \in AddOptions :
       /\ call' = [NoCall EXCEPT !.op = "add", !.docs = docs_list(docs),
                                 !.mapping = hasattr_items(docs), !.doc = docs.doc,
                                 !.chunk = chunk, !.kw = kw]
       /\ heap' = [NoHeap EXCEPT !.docs = docs_list(docs)]
       /\ result' = IF next_chunk(docs_list(docs), 0, chunk) = <<>>
                    THEN NoOutcome
                    ELSE Outcome("running", NoResponse, "", <<>>, <<>>)
  /\ consumed' = 0
  /\ UNCHANGED <<conn, phase, schema, datefields>>

\* one iteration of the loop of add: the next chunk is normalised in
\* place, serialised and handed to update; an exception ends add, and so
\* does the end of the documents
AddChunk ==
  /\ call.op = "add"
  /\ result.raised = "running"
  /\ \E net \in Nets :
       LET g == next_chunk(heap.docs, consumed, call.chunk)
           r == add_chunk(conn, datefields, g, call.kw, net)
           prepared == _prepare_docs(datefields, g)
           left == next_chunk(heap.docs, consumed + Len(g), call.chunk)
       IN  /\ heap' = [heap EXCEPT !.docs =
                         docs_after_chunk(heap.docs, consumed, prepared)]
           /\ consumed' = consumed + Len(g)
           /\ result' = [raised |-> add_status(r.raised, left),
                         response |-> r.response,
                         returned |-> "",
                         requests |-> result.requests \o r.requests,
                         updates |-> result.updates \o r.updates]
  /\ UNCHANGED <<conn, phase, schema, datefields, call>>

DeleteByQuery ==
  /\ Idle
  /\ \E query \in Queries, kw \in AddOptions, net \in Nets :
       /\ call' = [NoCall EXCEPT !.op = "delete_by_query", !.kw = kw,
                                 !.update_doc = JsonDeleteQuery(query)]
       /\ result' = delete_by_query(conn, query, kw, net)
  /\ UNCHANGED <<conn, phase, schema, datefields, heap, consumed>>

DeleteByIds ==
  /\ Idle
  /\ \E ids \in IdLists, kw \in AddOptions, net \in Nets :
       /\ call' = [NoCall EXCEPT !.op = "delete_by_ids", !.kw = kw,
                                 !.update_doc = JsonDeleteIds(ids)]
       /\ result' = delete_by_ids(conn, ids, kw, net)
  /\ UNCHANGED <<conn, phase, schema, datefields, heap, consumed>>

Next ==
  \/ InterfaceInit
  \/ Return
  \/ Update
  \/ Commit
  \/ Optimize
  \/ Rollback
  \/ Select
  \/ SelectAgain
  \/ Mlt
  \/ Add
  \/ AddChunk
  \/ DeleteByQuery
  \/ DeleteByIds

Spec == Init /\ [][Next]_vars

\* the update side of SolrConnection alone
NextUpdate ==
  \/ InterfaceInit
  \/ Return
  \/ Update
  \/ Commit
  \/ Optimize
  \/ Rollback

SpecUpdate == Init /\ [][NextUpdate]_vars

\* the query side of SolrConnection alone
NextSelect ==
  \/ InterfaceInit
  \/ Return
  \/ Select
  \/ SelectAgain
  \/ Mlt

SpecSelect == Init /\ [][NextSelect]_vars

\* the write operations of SolrInterface alone
NextAdd ==
  \/ InterfaceInit
  \/ Return
  \/ Add
  \/ AddChunk
  \/ DeleteByQuery
  \/ DeleteByIds

SpecAdd == Init /\ [][NextAdd]_vars

(***************************************************************************)
(* Properties.                                                             *)
(***************************************************************************)
\* the call has ended: it returned or raised
Done == call.op # "none" /\ result.raised # "running"

UpdateSideOps ==
  {"update", "commit", "optimize", "rollback", "add", "delete_by_query", "delete_by_ids"}

\* the index of the first occurrence of sub in s, 0 when there is none
find(s, sub) ==
  LET at == {i \in 1..(Len(s) - Len(sub) + 1) : SubSeq(s, i, i + Len(sub) - 1) = sub}
  IN  IF at = {} THEN 0 ELSE CHOOSE i \in at : \A j \in at : i <= j

contains(s, sub) == find(s, sub) # 0

same_arguments(a, b) ==
  /\ a.method = b.method
  /\ a.url = b.url
  /\ a.data = b.data
  /\ a.headers = b.headers

\* C1: a call of request whose first transport attempt fails to connect
\* makes, with a retry delay >= 0, exactly one more attempt with the same
\* arguments after sleeping the delay, and the outcome of that attempt is
\* the outcome of the call; with a negative delay it makes no other
\* attempt and the connection failure reaches the caller of the operation.
C1_RetryOnce ==
  \A i \in 1..Len(result.requests) :
    LET r == result.requests[i]
    IN  r.tries[1].got.exc = "ConnectionError" =>
          IF conn.retry_timeout >= 0
          THEN /\ Len(r.tries) = 2
               /\ same_arguments(r.tries[1], r.tries[2])
               /\ r.slept = <<conn.retry_timeout>>
               /\ IF r.tries[2].got.exc = "none"
                  THEN r.raised = "none" /\ r.response = r.tries[2].got
                  ELSE r.raised = "ConnectionError" /\ result.raised = "ConnectionError"
          ELSE /\ Len(r.tries) = 1
               /\ r.slept = <<>>
               /\ r.raised = "ConnectionError"
               /\ result.raised = "ConnectionError"

\* a select whose first attempt failed to connect and whose retry, after a
\* positive delay, was answered with status 200
C1_Witness ==
  /\ call.op = "select"
  /\ conn.retry_timeout > 0
  /\ Len(result.requests) = 1
  /\ Len(result.requests[1].tries) = 2
  /\ result.requests[1].tries[1].got.exc = "ConnectionError"
  /\ result.requests[1].tries[2].got.status_code = 200
  /\ result.raised = "none"

\* C2: an operation outside the access mode raises before any request: on
\* a connection of mode 'r' every update-side operation raises and has
\* made no request, on one of mode 'w' select and mlt raise and have made
\* no request, and in read-write mode the mode check never fails.
C2_ModeViolationRaises ==
  Done =>
    /\ (call.op \in UpdateSideOps /\ ~conn.writeable) =>
         (result.raised = "TypeError" /\ result.requests = <<>>)
    /\ (call.op \in {"select", "mlt"} /\ ~conn.readable) =>
         (result.raised = "TypeError" /\ result.requests = <<>>)
    /\ (conn.readable /\ conn.writeable) => result.raised # "TypeError"

S_q_waitSearcher_true ==
  <<"?">> \o K_waitSearcher \o <<"=">> \o S_true
S_q_commit_waitSearcher_true ==
  <<"?">> \o K_commit \o <<"=">> \o S_true \o <<"&">> \o K_waitSearcher
    \o <<"=">> \o S_true

IsCommitWaitSearcher ==
  /\ Done
  /\ call.op = "commit"
  /\ conn.writeable
  /\ call.kw = [NoOptions EXCEPT !.waitSearcher = BoolV(TRUE)]

\* commit(waitSearcher=True) makes one request, every attempt of it a POST
\* of the body {"commit": {}} to the update endpoint followed by query,
\* one attempt only when the first is answered; status 200 returns
\* silently and status 500 raises SolrError carrying the response
CommitWaitSearcherPosts(query) ==
  IsCommitWaitSearcher =>
    /\ Len(result.requests) = 1
    /\ LET r == result.requests[1]
           answer == r.tries[Len(r.tries)].got
       IN  /\ \A k \in 1..Len(r.tries) :
                /\ r.tries[k].method = "POST"
                /\ r.tries[k].data = StrData(S_commit_doc)
                /\ r.tries[k].url = conn.update_url \o query
           /\ r.tries[1].got.exc = "none" => Len(r.tries) = 1
           /\ answer.status_code = 200 =>
                (result.raised = "none" /\ result.returned = "")
           /\ answer.status_code = 500 =>
                (result.raised = "SolrError" /\ result.response = answer)

\* C3 as stated: commit(waitSearcher=True) POSTs {"commit": {}} to the
\* update endpoint followed by exactly ?waitSearcher=true.
C3_Original == CommitWaitSearcherPosts(S_q_waitSearcher_true)

\* C3, amended: commit(waitSearcher=True) POSTs {"commit": {}} to the
\* update endpoint followed by exactly ?commit=true&waitSearcher=true;
\* status 200 returns silently, status 500 raises a protocol error that
\* carries the response.
C3_CommitWaitSearcher == CommitWaitSearcherPosts(S_q_commit_waitSearcher_true)

\* commit(waitSearcher=True) answered with status 500
C3_Witness ==
  /\ IsCommitWaitSearcher
  /\ result.raised = "SolrError"
  /\ result.response.status_code = 500

\* the options of the one call of update an operation other than add made
TheUpdate == result.updates[1]

\* the URL the operation's one request went to
TheUrl == result.requests[1].tries[1].url

OneUpdateOnWritable ==
  /\ Done
  /\ call.op \in UpdateSideOps \ {"add"}
  /\ conn.writeable
  /\ Len(result.updates) = 1

unconvertible(x) == x.t # "None" /\ int_raises(x)

\* C4: every numeric option is validated before a request is sent: an
\* update whose commitWithin is negative or not convertible to an integer,
\* or whose maxSegments is zero, negative or not convertible, raises
\* ValueError and sends no request; a commitWithin >= 0 and a positive
\* maxSegments with optimize are accepted.
C4_NumericOptionsValidated ==
  OneUpdateOnWritable =>
    LET kw == TheUpdate.kw
        has(x) == x.t # "None"
    IN  /\ (\/ unconvertible(kw.commitWithin)
            \/ kw.commitWithin.t = "int" /\ kw.commitWithin.v < 0
            \/ unconvertible(kw.maxSegments)
            \/ kw.maxSegments.t = "int" /\ kw.maxSegments.v <= 0)
           => (result.raised = "ValueError" /\ result.requests = <<>>)
        /\ ( /\ has(kw.commitWithin) \/ has(kw.maxSegments)
             /\ has(kw.commitWithin) =>
                  (kw.commitWithin.t = "int" /\ kw.commitWithin.v >= 0)
             /\ has(kw.maxSegments) =>
                  (kw.maxSegments.t = "int" /\ kw.maxSegments.v > 0 /\ has(kw.optimize))
             /\ has(kw.expungeDeletes) => has(kw.commit) )
           => (result.raised # "ValueError" /\ Len(result.requests) = 1)

bool_text(x) == IF truthy(x) THEN S_true ELSE S_false

\* C5: with expungeDeletes supplied and commit not, update raises
\* ValueError and sends no request; with both supplied, and nothing else
\* wrong with the options, the URL is built and holds commit=... before
\* expungeDeletes=...; likewise maxSegments (a positive integer) without
\* optimize raises ValueError, and with optimize the URL holds
\* maxSegments=... before optimize=...
C5_CrossParameterDependencies ==
  OneUpdateOnWritable =>
    LET kw == TheUpdate.kw
        has(x) == x.t # "None"
    IN  /\ (has(kw.expungeDeletes) /\ ~has(kw.commit)) =>
             (result.raised = "ValueError" /\ result.requests = <<>>)
        /\ (has(kw.maxSegments) /\ ~has(kw.optimize)) =>
             (result.raised = "ValueError" /\ result.requests = <<>>)
        /\ ( /\ has(kw.expungeDeletes) /\ has(kw.commit)
             /\ ~unconvertible(kw.commitWithin)
             /\ ~unconvertible(kw.maxSegments)
             /\ has(kw.maxSegments) => has(kw.optimize) ) =>
             /\ result.raised # "ValueError"
             /\ Len(result.requests) = 1
             /\ LET c == find(TheUrl, <<"?">> \o K_commit \o <<"=">>
                                        \o bool_text(kw.commit))
                    e == find(TheUrl, <<"&">> \o K_expungeDeletes \o <<"=">>
                                        \o bool_text(kw.expungeDeletes))
                IN  c # 0 /\ c < e
        /\ ( /\ has(kw.optimize)
             /\ kw.maxSegments.t = "int" /\ kw.maxSegments.v > 0
             /\ ~unconvertible(kw.commitWithin)
             /\ has(kw.expungeDeletes) => has(kw.commit) ) =>
             /\ result.raised # "ValueError"
             /\ Len(result.requests) = 1
             /\ LET m == find(TheUrl, K_maxSegments \o <<"=">>
                                        \o str_int(kw.maxSegments.v) \o <<"&">>)
                    o == find(TheUrl, <<"&">> \o K_optimize \o <<"=">>
                                        \o bool_text(kw.optimize))
                IN  m # 0 /\ m < o

\* an update with optimize and a positive maxSegments was sent
C5_Witness ==
  /\ OneUpdateOnWritable
  /\ call.op = "update"
  /\ TheUpdate.kw.optimize = BoolV(FALSE)
  /\ TheUpdate.kw.maxSegments = IntV(MaxOptionInt)
  /\ result.raised = "none"
  /\ Len(result.requests) = 1

\* the chunks add is to send, by position: chunk k of n documents in
\* chunks of c holds the documents (k-1)*c+1 .. min(k*c, n)
chunk_first(k, c) == (k - 1) * c + 1
chunk_last(k, c, n) == IF k * c < n THEN k * c ELSE n
chunk_count(n, c) == (n + c - 1) \div c

\* C6: when the update call of a chunk of add fails, no update call is
\* made for a later chunk and the error is what add raises: a failed
\* update call is always the last one add has made, and add has ended
\* with its exception; the update calls are made in chunk order, the k-th
\* for the k-th chunk.
C6_FailureAbortsLaterChunks ==
  call.op = "add" =>
    \A k \in 1..Len(result.updates) :
      /\ result.updates[k].raised # "none" =>
           /\ k = Len(result.updates)
           /\ result.raised = result.updates[k].raised
      /\ Len(result.updates[k].update_doc.items)
           = chunk_last(k, call.chunk, Len(call.docs)) - chunk_first(k, call.chunk) + 1
      /\ \A j \in 1..Len(result.updates[k].update_doc.items) :
           result.updates[k].update_doc.items[j][F_id]
             = call.docs[chunk_first(k, call.chunk) + j - 1][F_id]

\* an add of three chunks whose second update call failed
C6_Witness ==
  /\ call.op = "add"
  /\ call.chunk = 1
  /\ Len(call.docs) = 3
  /\ Len(result.updates) = 2
  /\ result.updates[1].raised = "none"
  /\ result.updates[2].raised = "SolrError"
  /\ result.raised = "SolrError"

\* C7: an add of n documents in chunks of c >= 1 in which no call fails
\* makes ceil(n/c) update calls, the k-th with the normalised documents
\* (k-1)*c+1 .. min(k*c, n) in their order and with the options the caller
\* gave; 250 documents in chunks of 100 make chunks of 100, 100 and 50.
C7_ChunksCoverDocuments ==
  /\ (Done /\ call.op = "add" /\ call.chunk >= 1 /\ result.raised = "none") =>
       LET n == Len(call.docs)
           c == call.chunk
       IN  /\ Len(result.updates) = chunk_count(n, c)
           /\ \A k \in 1..Len(result.updates) :
                /\ result.updates[k].kw = call.kw
                /\ result.updates[k].update_doc.kind = "json_docs"
                /\ result.updates[k].update_doc.items =
                     [j \in 1..(chunk_last(k, c, n) - chunk_first(k, c) + 1) |->
                        prepare_doc(datefields, call.docs[chunk_first(k, c) + j - 1])]
  /\ LET g == grouper([i \in 1..250 |-> i], 100)
     IN  /\ Len(g) = 3
         /\ g[1] = [i \in 1..100 |-> i]
         /\ g[2] = [i \in 1..100 |-> 100 + i]
         /\ g[3] = [i \in 1..50 |-> 200 + i]

\* an add of three documents in chunks of two that went through
C7_Witness ==
  /\ Done
  /\ call.op = "add"
  /\ call.chunk = 2
  /\ Len(call.docs) = 3
  /\ result.raised = "none"
  /\ Len(result.updates) = 2

\* the URL select assembles for a GET
select_get_url ==
  conn.select_url \o <<"?">> \o urlencode(Append(call.params, <<S_wt, S_json>>))

\* C8: select makes one request; when the GET URL (select endpoint, '?',
\* the encoded parameters with wt=json) is no longer than the threshold,
\* it is a GET of that URL without body, and when it is longer it is a
\* POST to the bare select endpoint with the same encoded parameters as
\* the body and Content-Type application/x-www-form-urlencoded.
C8_SelectTransportByLength ==
  (Done /\ call.op = "select" /\ conn.readable) =>
    /\ Len(result.requests) = 1
    /\ \A k \in 1..Len(result.requests[1].tries) :
         LET t == result.requests[1].tries[k]
         IN  IF Len(select_get_url) <= conn.max_length_get_url
             THEN /\ t.method = "GET"
                  /\ t.url = select_get_url
                  /\ t.data = NoData
                  /\ t.headers = NoHeaders
             ELSE /\ t.method = "POST"
                  /\ t.url = conn.select_url
                  /\ t.data = StrData(urlencode(Append(call.params, <<S_wt, S_json>>)))
                  /\ t.headers = CT_form

\* a select whose GET URL is exactly as long as the threshold
C8_Witness ==
  /\ Done
  /\ call.op = "select"
  /\ conn.readable
  /\ Len(select_get_url) = conn.max_length_get_url
  /\ result.requests[1].tries[1].method = "GET"

\* the transport attempts of the call
Tries ==
  UNION {{result.requests[i].tries[k] : k \in 1..Len(result.requests[i].tries)} :
           i \in 1..Len(result.requests)}

\* C9: mlt, with or without content, never sends a GET whose URL is
\* longer than the threshold.
C9_MltNoLongGet ==
  (Done /\ call.op = "mlt") =>
    \A t \in Tries : t.method = "GET" => Len(t.url) <= conn.max_length_get_url

S_wt_json == S_wt \o <<"=">> \o S_json

\* C10: every request of select and of mlt carries wt=json, in its URL or
\* in its body.
C10_AlwaysWtJson ==
  (Done /\ call.op \in {"select", "mlt"}) =>
    \A t \in Tries : contains(t.url, S_wt_json) \/ contains(t.data.text, S_wt_json)

\* C11: after _prepare_docs no document maps a field to None: the fields
\* of a normalised document are exactly the fields of the document as the
\* caller passed it that did not hold None (none is added), a field the
\* date matcher accepts holds the date-serialised string of its value, and
\* every other field holds its value unchanged; the same is true of the
\* documents of every JSON array add has handed to update.
C11_NormalizedWithoutNulls ==
  call.op = "add" =>
    /\ \A i \in 1..consumed :
         LET before == call.docs[i]
             after == heap.docs[i]
         IN  /\ DOMAIN after = {name \in DOMAIN before : before[name] # NoneValue}
             /\ \A name \in DOMAIN after :
                  /\ after[name] # NoneValue
                  /\ IF is_datefield(datefields, name)
                     THEN after[name] = SolrDate(before[name].v)
                     ELSE after[name] = before[name]
    /\ \A k \in 1..Len(result.updates) :
         \A j \in 1..Len(result.updates[k].update_doc.items) :
           LET sent == result.updates[k].update_doc.items[j]
           IN  \A name \in DOMAIN sent : sent[name] # NoneValue

\* add has normalised a document that held None in one field and a
\* date-like string in a field of a date pattern
C11_Witness ==
  /\ Done
  /\ call.op = "add"
  /\ consumed >= 2
  /\ call.docs[2][F_n] = NoneValue
  /\ DOMAIN heap.docs[2] = {F_id, F_a_dt}
  /\ call.docs[2][F_a_dt] = DateString(2)
  /\ heap.docs[2][F_a_dt] = SolrDate(2)
  /\ heap.docs[2][F_id] = call.docs[2][F_id]

\* C12: a response is never retried. Every call of request an operation
\* makes (update, select, mlt, the schema fetch) makes one or two transport
\* attempts, and every attempt before the last failed to connect; a
\* response whose status is not 200 ends the operation with a protocol
\* error (an initialisation error for the schema fetch) that carries it,
\* and a connection failure of the last attempt ends the operation with
\* that failure.
C12_ResponseNeverRetried ==
  \A i \in 1..Len(result.requests) :
    LET r == result.requests[i]
        last == r.tries[Len(r.tries)].got
    IN  /\ Len(r.tries) \in {1, 2}
        /\ \A k \in 1..(Len(r.tries) - 1) : r.tries[k].got.exc = "ConnectionError"
        /\ (last.exc = "none" /\ last.status_code # 200) =>
             /\ i = Len(result.requests)
             /\ result.raised = IF call.op = "init" THEN "EnvironmentError"
                                ELSE "SolrError"
             /\ result.response = last
        /\ last.exc = "ConnectionError" =>
             /\ i = Len(result.requests)
             /\ result.raised = "ConnectionError"

\* an mlt whose first attempt failed to connect and whose second attempt
\* was answered with status 500
C12_Witness ==
  /\ Done
  /\ call.op = "mlt"
  /\ Len(result.requests) = 1
  /\ Len(result.requests[1].tries) = 2
  /\ result.requests[1].tries[1].got.exc = "ConnectionError"
  /\ result.requests[1].tries[2].got.status_code = 500
  /\ result.raised = "SolrError"

\* add was handed one mapping, and a JSON array of exactly that document,
\* normalised, went out in the one call of update add made
MappingSentAsOneDocument ==
  /\ Len(result.updates) = 1
  /\ result.updates[1].update_doc.kind = "json_docs"
  /\ Len(result.updates[1].update_doc.items) = 1
  /\ result.updates[1].update_doc.items[1] = prepare_doc(datefields, call.doc)
  /\ heap.docs = <<prepare_doc(datefields, call.doc)>>

\* C13 as stated: whatever the chunk size, an add of a single mapping makes
\* exactly one call of update, whose JSON array holds exactly that document.
C13_Original ==
  (Done /\ call.op = "add" /\ call.mapping) => MappingSentAsOneDocument

\* C13, amended: with a chunk size of at least 1, an add of a single
\* mapping makes exactly one call of update, whose JSON array holds exactly
\* one element, that document; its fields are never taken for documents.
C13_MappingIsOneDocument ==
  (Done /\ call.op = "add" /\ call.mapping /\ call.chunk >= 1) =>
    MappingSentAsOneDocument

\* an add of a mapping of two fields, in chunks of one, that went through
C13_Witness ==
  /\ Done
  /\ call.op = "add"
  /\ call.mapping
  /\ call.chunk = 1
  /\ Cardinality(DOMAIN call.doc) = 2
  /\ result.raised = "none"
  /\ Len(result.updates) = 1

\* the URL of the schema document
schema_url == urljoin(conn.url, remote_schema_file)

\* the URLs the transport attempts of an outcome went to
urls_of(outcome) ==
  UNION {{outcome.requests[i].tries[k].url : k \in 1..Len(outcome.requests[i].tries)} :
           i \in 1..Len(outcome.requests)}

\* C14: the schema is fetched once, at construction, and the date-field
\* patterns are read-only afterwards: the construction makes one request,
\* a GET of the schema document, and no step after it, of whatever
\* operation and whether it succeeds or fails, sends anything to the
\* schema endpoint or changes _datefields.
C14_SchemaFetchedOnce ==
  [][ /\ phase = "new" =>
           /\ Len(result'.requests) = 1
           /\ urls_of(result') = {schema_url}
           /\ \A k \in 1..Len(result'.requests[1].tries) :
                result'.requests[1].tries[k].method = "GET"
      /\ phase # "new" =>
           /\ schema' = schema
           /\ datefields' = datefields
           /\ schema_url \notin urls_of(result') ]_vars

\* on an interface whose schema has date fields, a delete has failed to
\* connect
C14_Witness ==
  /\ phase = "ready"
  /\ datefields = _extract_datefields(SchemaDates)
  /\ call.op = "delete_by_ids"
  /\ result.raised = "ConnectionError"
  /\ schema_url \notin urls_of(result)

\* the names of the date-typed entries of a part of the schema
date_names(entries) == {entries[i].name : i \in {j \in 1..Len(entries) : entries[j].type = "date"}}

startswith(s, prefix) ==
  /\ Len(prefix) <= Len(s)
  /\ SubSeq(s, 1, Len(prefix)) = prefix

strip_trailing_star(pattern) ==
  IF pattern # <<>> /\ pattern[Len(pattern)] = "*"
  THEN SubSeq(pattern, 1, Len(pattern) - 1) ELSE pattern

\* add has treated the field name of its i-th document as a date field:
\* the field now holds a date-serialised string
treated_as_date(i, name) == heap.docs[i][name] = SolrDate(call.docs[i][name].v)

\* every field of every document add has normalised is treated as a date
\* field exactly when matches(name) holds
DateFieldsAre(matches(_)) ==
  call.op = "add" =>
    \A i \in 1..consumed :
      \A name \in DOMAIN heap.docs[i] : treated_as_date(i, name) <=> matches(name)

\* C15 as stated: a field is treated as a date field if and only if its
\* name equals a date-typed field name of the schema or begins with a
\* date-typed dynamic-field pattern stripped of its trailing '*'.
C15_Original ==
  LET matches(name) ==
        \/ name \in date_names(schema.fields)
        \/ \E pattern \in date_names(schema.dynamicFields) :
             startswith(name, strip_trailing_star(pattern))
  IN  DateFieldsAre(matches)

\* C15, amended: a field is treated as a date field if and only if its
\* name equals, or ends with, a name obtained by removing every '*' from
\* the name of a date-typed field or dynamic field of the schema.
C15_DateFieldsBySuffix ==
  LET matches(name) ==
        \E pattern \in date_names(schema.fields) \cup date_names(schema.dynamicFields) :
          \/ name = remove_star(pattern)
          \/ endswith(name, remove_star(pattern))
  IN  DateFieldsAre(matches)

\* under the schema whose date pattern ends with the wildcard, add has
\* normalised a document with a field that begins with the pattern, and
\* has left that field as it was
C15_Witness ==
  /\ call.op = "add"
  /\ schema = SchemaPrefix
  /\ consumed = 3
  /\ F_dt_x \in DOMAIN heap.docs[3]
  /\ heap.docs[3][F_dt_x] = DateString(3)

\* the options of the update URL in ascending order of name, each with
\* the text its value is written as
OptionsByName(kw) ==
  <<[key |-> K_commit, value |-> kw.commit, text |-> bool_text(kw.commit)],
    [key |-> K_commitWithin, value |-> kw.commitWithin,
     text |-> str_int(kw.commitWithin.v)],
    [key |-> K_expungeDeletes, value |-> kw.expungeDeletes,
     text |-> bool_text(kw.expungeDeletes)],
    [key |-> K_maxSegments, value |-> kw.maxSegments,
     text |-> str_int(kw.maxSegments.v)],
    [key |-> K_optimize, value |-> kw.optimize, text |-> bool_text(kw.optimize)],
    [key |-> K_softCommit, value |-> kw.softCommit, text |-> bool_text(kw.softCommit)],
    [key |-> K_waitSearcher, value |-> kw.waitSearcher,
     text |-> bool_text(kw.waitSearcher)]>>

\* name=value for every supplied option from the k-th on, each but the
\* first of the URL preceded by '&'
RECURSIVE query_from(_, _, _)
query_from(options, k, first) ==
  IF k > Len(options) THEN <<>>
  ELSE IF options[k].value.t = "None" THEN query_from(options, k + 1, first)
  ELSE (IF first THEN <<>> ELSE <<"&">>) \o options[k].key \o <<"=">>
         \o options[k].text \o query_from(options, k + 1, FALSE)

\* C16: the URL an update is sent to holds exactly the options that were
\* supplied (not None), each once as name=value in ascending order of
\* name, a boolean as true or false and an integer in decimal, after the
\* update endpoint and a '?'; with no option supplied it is the bare update
\* endpoint, without '?'.
C16_UrlHoldsExactlySuppliedOptions ==
  /\ \A i, j \in 1..Len(OptionsByName(NoOptions)) :
       i < j => str_less(OptionsByName(NoOptions)[i].key, OptionsByName(NoOptions)[j].key)
  /\ (OneUpdateOnWritable /\ Len(result.requests) = 1) =>
       \A k \in 1..Len(result.requests[1].tries) :
         result.requests[1].tries[k].url =
           IF supplied(TheUpdate.kw) = {}
           THEN conn.update_url
           ELSE conn.update_url \o <<"?">>
                  \o query_from(OptionsByName(TheUpdate.kw), 1, TRUE)

\* an update with softCommit=False and commitWithin was sent
C16_Witness ==
  /\ OneUpdateOnWritable
  /\ call.op = "update"
  /\ TheUpdate.kw = [NoOptions EXCEPT !.softCommit = BoolV(FALSE),
                                      !.commitWithin = IntV(MaxOptionInt)]
  /\ Len(result.requests) = 1
  /\ TheUrl = conn.update_url \o <<"?">> \o K_commitWithin \o <<"=">>
                 \o str_int(MaxOptionInt) \o <<"&">> \o K_softCommit \o <<"=">> \o S_false

\* C17: add normalises a chunk, in the caller's own documents, before
\* update checks the mode and the options and before anything is sent: at
\* any point of an add, and so when it has failed with a validation, mode,
\* transport or protocol error, the documents of every chunk handed to
\* update so far, the failing one included, are normalised and the
\* documents of the later chunks are as the caller passed them.
C17_NormalizedBeforeFailure ==
  call.op = "add" =>
    /\ consumed = IF Len(result.updates) * call.chunk < Len(call.docs)
                  THEN Len(result.updates) * call.chunk ELSE Len(call.docs)
    /\ Len(heap.docs) = Len(call.docs)
    /\ \A i \in 1..Len(call.docs) :
         heap.docs[i] = IF i <= consumed THEN prepare_doc(datefields, call.docs[i])
                        ELSE call.docs[i]
    /\ result.raised \notin {"none", "running"} =>
         /\ consumed >= 1
         /\ result.updates[Len(result.updates)].raised = result.raised
         /\ result.raised \in {"ValueError", "TypeError"} =>
              result.requests = <<>>

\* an add in chunks of one has failed on its first chunk with a
\* validation error, before any request: the first document has been
\* rewritten, the second still holds its None field
C17_Witness ==
  /\ Done
  /\ call.op = "add"
  /\ call.chunk = 1
  /\ Len(call.docs) = 3
  /\ result.raised = "ValueError"
  /\ result.requests = <<>>
  /\ heap.docs[1] # call.docs[1]
  /\ heap.docs[2] = call.docs[2]
  /\ heap.docs[2][F_n] = NoneValue

\* C18: an add of an empty collection, or with a chunk size of 0, makes no
\* call of update, sends nothing, leaves the documents alone and returns
\* without error, whatever the options and the mode of the connection:
\* options update would refuse and a read-only connection go unreported.
C18_EmptyAddReportsNothing ==
  (call.op = "add" /\ (call.docs = <<>> \/ call.chunk = 0)) =>
    /\ Done
    /\ result.raised = "none"
    /\ result.updates = <<>>
    /\ result.requests = <<>>
    /\ heap.docs = call.docs

\* on a read-only connection an add of three documents with a chunk size
\* of 0 and with expungeDeletes but no commit has returned
C18_Witness ==
  /\ call.op = "add"
  /\ ~conn.writeable
  /\ call.chunk = 0
  /\ Len(call.docs) = 3
  /\ call.kw = [NoOptions EXCEPT !.expungeDeletes = BoolV(TRUE)]
  /\ result.raised = "none"
  /\ result.updates = <<>>

\* how many times sub occurs in s
occurrences(s, sub) ==
  Cardinality({i \in 1..(Len(s) - Len(sub) + 1) : SubSeq(s, i, i + Len(sub) - 1) = sub})

\* the query a transport attempt of select carries: in the URL of a GET,
\* in the body of a POST
carried_query(t) ==
  IF t.method = "GET" THEN SubSeq(t.url, Len(conn.select_url) + 2, Len(t.url))
  ELSE t.data.text

\* C19: select appends ('wt', 'json') to the caller's own list. After the
\* k-th select with one list object on a readable connection the list is
\* the list as first passed followed by k wt=json pairs, the k-th request
\* carries the encoding of that list, with wt=json k times, and the URL of
\* the GET has grown by 8 characters a call; on a write-only connection
\* select raises and the list is as first passed.
C19_SelectAppendsToCallersList ==
  call.op = "select" =>
    IF conn.readable
    THEN /\ heap.params = call.first_params \o [i \in 1..call.nth |-> <<S_wt, S_json>>]
         /\ wt_pairs(heap.params) = call.nth
         /\ Len(result.requests) = 1
         /\ \A k \in 1..Len(result.requests[1].tries) :
              LET t == result.requests[1].tries[k]
              IN  /\ carried_query(t) = urlencode(heap.params)
                  /\ occurrences(carried_query(t), S_wt_json) = call.nth
                  /\ Len(carried_query(t))
                       = Len(urlencode(Append(call.first_params, <<S_wt, S_json>>)))
                           + 8 * (call.nth - 1)
    ELSE /\ heap.params = call.first_params
         /\ result.raised = "TypeError"
         /\ result.requests = <<>>

\* the second select with one list was a POST, where the first, one
\* wt=json pair shorter, was a GET as long as the threshold allows
C19_Witness ==
  /\ Done
  /\ call.op = "select"
  /\ conn.readable
  /\ call.nth = 2
  /\ Len(conn.select_url) + 1
       + Len(urlencode(Append(call.first_params, <<S_wt, S_json>>)))
       = conn.max_length_get_url
  /\ result.requests[1].tries[1].method = "POST"
  /\ occurrences(result.requests[1].tries[1].data.text, S_wt_json) = 2
====
